---- MODULE Spec2Model ----
(***************************************************************************)
(* Model of source/file_io.py of Q-Emulator:                               *)
(*   - load(filepath): reads a compiled binary, byte by byte for the       *)
(*     namespace header and group by group for the instructions;           *)
(*   - QTEmulatorIO._create_memory_dump / create_memory_dump: write the    *)
(*     emulator's four memory segments and six registers as text.          *)
(* Bytes are integers 0..255, bytes objects are sequences of bytes.        *)
(* int.from_bytes is called without byteorder, which is big-endian on the  *)
(* interpreters that accept the call (Python >= 3.11).                     *)
(***************************************************************************)
EXTENDS Integers, Sequences, FiniteSets, TLC

VARIABLES
    file,             \* content of the executable file (sequence of bytes)
    pos,              \* number of bytes of the file consumed so far
    namespace,        \* namespace header accumulated by load
    raw_instruction,  \* last group returned by file.read(4) / file.read(3)
    instructions,     \* list of decoded instruction tuples
    pc,               \* "header", "decode", "returned", "raised"
    error,            \* "none", "Exception", "IndexError"
    eof_reads,        \* header-loop reads that returned b'' at end of file
    emulator,         \* the QTEmulator handed to create_memory_dump
    dumps,            \* files written by create_memory_dump, by extension
    dumped            \* create_memory_dump has run

loadvars == <<file, pos, namespace, raw_instruction, instructions, pc, error, eof_reads>>
dumpvars == <<emulator, dumps, dumped>>
vars == <<file, pos, namespace, raw_instruction, instructions, pc, error, eof_reads,
          emulator, dumps, dumped>>

----------------------------------------------------------------------------
(* Bounds *)

MaxBody == 8        \* longest instruction body of a generated file
MaxEofReads == 3    \* header-loop iterations followed after end of file
MaxSegLen == 34     \* longest dumped memory segment

----------------------------------------------------------------------------
(* Bytes and byte strings *)

Q == 81
T == 84
M == 77
QT == <<Q, T>>
QM == <<Q, M>>

Min(a, b) == IF a < b THEN a ELSE b
Max(a, b) == IF a > b THEN a ELSE b

\* file.read(n) at offset p: at most n bytes, fewer (or none) at end of file
Read(f, p, n) == SubSeq(f, p + 1, Min(p + n, Len(f)))

\* b[lo:hi] of Python for 0 <= lo <= hi (0-based, hi exclusive, clipped)
Slice(b, lo, hi) == SubSeq(b, lo + 1, Min(hi, Len(b)))

\* x & y on non-negative integers
RECURSIVE BitAnd(_, _)
BitAnd(x, y) ==
    IF x = 0 \/ y = 0 THEN 0
    ELSE (IF x % 2 = 1 /\ y % 2 = 1 THEN 1 ELSE 0) + 2 * BitAnd(x \div 2, y \div 2)

\* int.from_bytes(b) with the default byteorder "big"
RECURSIVE from_bytes(_)
from_bytes(b) ==
    IF b = <<>> THEN 0
    ELSE 256 * from_bytes(SubSeq(b, 1, Len(b) - 1)) + b[Len(b)]

----------------------------------------------------------------------------
(* load: inputs *)

Seqs(S, n) == UNION {[1..k -> S] : k \in 0..n}

\* what precedes the instruction body: recognised and unrecognised
\* namespaces with their terminator, and headers without terminator
Headers ==
    { <<Q, T, 0>>, <<Q, M, 0>>, <<0>>, <<Q, 0>>, <<T, Q, 0>>, <<Q, T, T, 0>>,
      <<Q, T>>, <<>> }

BodyBytes == {0, 1, 254}

GenericFiles == {h \o b : h \in Headers, b \in Seqs(BodyBytes, MaxBody)}

\* files holding one instruction in the wide 4-byte form after "QT\0"
RoundTripValues == {0, 255, 256, 300, 65535}
RoundTripOpcodes == {0, 7, 255}
RoundTripTriples ==
    {<<f, v, o>> : f \in {0, 1}, v \in RoundTripValues, o \in RoundTripOpcodes}
\* the wide form the compiler writes: the inverse of the layout load reads
EncodeWide(ins) == <<ins[1], ins[2] \div 256, ins[2] % 256, ins[3]>>
RoundTripFiles == {<<Q, T, 0>> \o EncodeWide(ins) : ins \in RoundTripTriples}

Files == GenericFiles \cup RoundTripFiles

----------------------------------------------------------------------------
(* load: decoding of one group *)

\* variant: the else branch that raises is missing
Recognized_NoElse(ns) == TRUE

\* namespace == b'QT' / namespace == b'QM', anything else raises
Recognized(ns) == ns = QT \/ ns = QM

\* file.read(4) under "QT", file.read(3) under "QM"
GroupWidth(ns) == IF ns = QT THEN 4 ELSE 3

\* variant: the flag byte is taken without the mask
MemoryFlag_NoMask(raw) == raw[1]

\* memory_flag = raw_instruction[0] & 1
MemoryFlag(raw) == BitAnd(raw[1], 1)

\* variant: the two value bytes are read little-endian
Value_LittleEndian(raw) ==
    LET b == Slice(raw, 1, 3) IN from_bytes([i \in 1..Len(b) |-> b[Len(b) + 1 - i]])

\* value = int.from_bytes(raw_instruction[1:3])
Value(raw) == from_bytes(Slice(raw, 1, 3))

\* raw_instruction[3] raises IndexError unless the group has 4 bytes
HasOpcodeByte(raw) == Len(raw) > 3

\* variant: the opcode is taken from index 2
Opcode_Index2(raw) == raw[3]

\* opcode = raw_instruction[3]
Opcode(raw) == raw[4]

\* variant: the instruction is inserted at the front of the list
AppendInstruction_Front(list, raw) ==
    <<<<MemoryFlag(raw), Value(raw), Opcode(raw)>>>> \o list

\* instructions.append((memory_flag, value, opcode))
AppendInstruction(list, raw) ==
    Append(list, <<MemoryFlag(raw), Value(raw), Opcode(raw)>>)

----------------------------------------------------------------------------
(* load: steps *)

LoadInit ==
    /\ file \in Files
    /\ pos = 0
    /\ namespace = <<>>
    /\ raw_instruction = <<>>
    /\ instructions = <<>>
    /\ pc = "header"
    /\ error = "none"
    /\ eof_reads = 0

\* one iteration of the header loop: the byte read is not b'\x00' (at end
\* of file read(1) returns b'', which is not b'\x00' either)
ReadHeaderChar ==
    /\ pc = "header"
    /\ LET char == Read(file, pos, 1) IN
        /\ char # <<0>>
        /\ char = <<>> => eof_reads < MaxEofReads
        /\ namespace' = namespace \o char
        /\ pos' = pos + Len(char)
        /\ eof_reads' = IF char = <<>> THEN eof_reads + 1 ELSE eof_reads
    /\ UNCHANGED <<file, raw_instruction, instructions, pc, error, dumpvars>>

\* the header loop reads the terminator b'\x00' and ends
EndHeader ==
    /\ pc = "header"
    /\ Read(file, pos, 1) = <<0>>
    /\ pos' = pos + 1
    /\ pc' = "decode"
    /\ UNCHANGED <<file, namespace, raw_instruction, instructions, error, eof_reads, dumpvars>>

\* decode loop, namespace neither b'QT' nor b'QM': raise Exception
RaiseUnknownNamespace ==
    /\ pc = "decode"
    /\ ~Recognized(namespace)
    /\ pc' = "raised"
    /\ error' = "Exception"
    /\ UNCHANGED <<file, pos, namespace, raw_instruction, instructions, eof_reads, dumpvars>>

\* decode loop, the read returns b'': break and return instructions
ReturnInstructions ==
    /\ pc = "decode"
    /\ Recognized(namespace)
    /\ LET raw == Read(file, pos, GroupWidth(namespace)) IN
        /\ raw = <<>>
        /\ raw_instruction' = raw
    /\ pc' = "returned"
    /\ UNCHANGED <<file, pos, namespace, instructions, error, eof_reads, dumpvars>>

\* decode loop, the read returns a group with a byte at index 3
DecodeInstruction ==
    /\ pc = "decode"
    /\ Recognized(namespace)
    /\ LET raw == Read(file, pos, GroupWidth(namespace)) IN
        /\ raw # <<>>
        /\ HasOpcodeByte(raw)
        /\ raw_instruction' = raw
        /\ pos' = pos + Len(raw)
        /\ instructions' = AppendInstruction(instructions, raw)
    /\ UNCHANGED <<file, namespace, pc, error, eof_reads, dumpvars>>

\* decode loop, the read returns a non-empty group without a byte at index 3
\* (1 to 3 bytes under "QT", any group under "QM"): raw_instruction[3] raises
RaiseIndexError ==
    /\ pc = "decode"
    /\ Recognized(namespace)
    /\ LET raw == Read(file, pos, GroupWidth(namespace)) IN
        /\ raw # <<>>
        /\ ~HasOpcodeByte(raw)
        /\ raw_instruction' = raw
        /\ pos' = pos + Len(raw)
    /\ pc' = "raised"
    /\ error' = "IndexError"
    /\ UNCHANGED <<file, namespace, instructions, eof_reads, dumpvars>>

DumpIdle ==
    /\ emulator = <<>>
    /\ dumps = <<>>
    /\ dumped = FALSE

Init == LoadInit /\ DumpIdle

Next ==
    \/ ReadHeaderChar
    \/ EndHeader
    \/ RaiseUnknownNamespace
    \/ ReturnInstructions
    \/ DecodeInstruction
    \/ RaiseIndexError

Spec == Init /\ [][Next]_vars

----------------------------------------------------------------------------
(* load: properties *)

HasTerminator(f) == \E i \in 1..Len(f) : f[i] = 0
FirstZero(f) == CHOOSE i \in 1..Len(f) : f[i] = 0 /\ \A j \in 1..(i - 1) : f[j] # 0
HeaderOf(f) == SubSeq(f, 1, FirstZero(f) - 1)
BodyOf(f) == SubSeq(f, FirstZero(f) + 1, Len(f))
Finished == pc \in {"returned", "raised"}

\* C1: under a "QT" header, the instruction decoded from a complete 4-byte
\* group b0 b1 b2 b3 of the file is (b0 mod 2, 256*b1 + b2, b3).
C1_WideLayout ==
    (namespace = QT /\ Len(raw_instruction) = 4) =>
        /\ raw_instruction = SubSeq(file, pos - 3, pos)
        /\ instructions # <<>>
        /\ instructions[Len(instructions)] =
               << raw_instruction[1] % 2,
                  256 * raw_instruction[2] + raw_instruction[3],
                  raw_instruction[4] >>

C1_Witness ==
    /\ namespace = QT
    /\ Len(raw_instruction) = 4
    /\ raw_instruction[1] = 254
    /\ raw_instruction[2] = 1
    /\ raw_instruction[3] = 254
    /\ instructions[Len(instructions)] = <<0, 510, raw_instruction[4]>>

\* C2: a triple encoded as [memory_flag, value div 256, value mod 256, opcode]
\* after "QT\0" is decoded by load to a list holding exactly that triple.
C2_RoundTrip ==
    \A ins \in RoundTripTriples :
        (file = <<Q, T, 0>> \o EncodeWide(ins) /\ Finished) =>
            (pc = "returned" /\ instructions = <<ins>>)

C2_Witness ==
    /\ pc = "returned"
    /\ file = <<Q, T, 0>> \o EncodeWide(<<1, 300, 7>>)
    /\ instructions = << <<1, 300, 7>> >>

\* C3: a body ending in a partial group (1 to 3 bytes under "QT", 1 to 2
\* under "QM") is not an error: load returns the instructions of the
\* complete groups before it.
C3_PartialGroupEndsProgram ==
    (/\ Finished
     /\ HasTerminator(file)
     /\ HeaderOf(file) \in {QT, QM}
     /\ Len(BodyOf(file)) % (IF HeaderOf(file) = QT THEN 4 ELSE 3) # 0) =>
        /\ pc = "returned"
        /\ Len(instructions) =
               Len(BodyOf(file)) \div (IF HeaderOf(file) = QT THEN 4 ELSE 3)

\* C4: a file whose namespace header is neither "QT" nor "QM" makes load
\* raise, with no instruction decoded, whatever the body is.
C4_UnknownNamespaceRaises ==
    /\ []((HasTerminator(file) /\ HeaderOf(file) \notin {QT, QM}) =>
            (pc \in {"header", "decode", "raised"} /\ instructions = <<>>))
    /\ [][(pc = "decode" /\ HeaderOf(file) \notin {QT, QM}) =>
            (pc' = "raised" /\ error' # "none" /\ instructions' = <<>>)]_vars

C4_Witness ==
    /\ pc = "raised"
    /\ error = "Exception"
    /\ HeaderOf(file) = <<Q, T, T>>
    /\ Len(BodyOf(file)) = MaxBody
    /\ instructions = <<>>

\* C5: under a "QM" header a body of 3n bytes (n >= 1) yields n
\* instructions, and no byte at index 3 of a 3-byte group is read.
C5_NarrowGroupsDecoded ==
    (/\ Finished
     /\ HasTerminator(file)
     /\ HeaderOf(file) = QM
     /\ Len(BodyOf(file)) > 0
     /\ Len(BodyOf(file)) % 3 = 0) =>
        /\ pc = "returned"
        /\ error # "IndexError"
        /\ Len(instructions) = Len(BodyOf(file)) \div 3

\* C6: for "QT\0" followed by 4n bytes load returns n instructions, the
\* i-th one decoded from the i-th group of 4 bytes of the body.
C6_WideOrder ==
    (/\ Finished
     /\ HasTerminator(file)
     /\ HeaderOf(file) = QT
     /\ Len(BodyOf(file)) % 4 = 0) =>
        /\ pc = "returned"
        /\ Len(instructions) = Len(BodyOf(file)) \div 4
        /\ \A i \in 1..Len(instructions) :
               LET group == SubSeq(BodyOf(file), 4 * i - 3, 4 * i) IN
               instructions[i] = <<MemoryFlag(group), Value(group), Opcode(group)>>

C6_Witness ==
    /\ pc = "returned"
    /\ HeaderOf(file) = QT
    /\ Len(BodyOf(file)) = 8
    /\ Len(instructions) = 2
    /\ instructions[1] # instructions[2]

\* C8: every instruction of a returned list has memory_flag in {0,1},
\* value in 0..65535 and opcode in 0..255.
C8_FieldRanges ==
    pc = "returned" =>
        \A i \in 1..Len(instructions) :
            /\ instructions[i][1] \in {0, 1}
            /\ instructions[i][2] \in 0..65535
            /\ instructions[i][3] \in 0..255

C8_Witness ==
    /\ pc = "returned"
    /\ \E i \in 1..Len(instructions) :
           instructions[i][2] = 65535 /\ instructions[i][3] = 255

\* C9: load terminates; on a file without 0x00 the header loop stops at end
\* of file: once a read has returned b'' it does not read again.
C9_HeaderLoopStopsAtEndOfFile == eof_reads <= 1

----------------------------------------------------------------------------
(* QTEmulatorIO: class attributes *)

offset == 16
index_offset == 4
added_offset == 3
number_offset == 5
section_size == offset * (number_offset + 1) + index_offset + added_offset

----------------------------------------------------------------------------
(* QTEmulatorIO: text formatting.  A formatted number is its sequence of    *)
(* decimal digits; cells and registers are unsigned.                        *)

\* str(n) for n >= 0
RECURSIVE Digits(_)
Digits(n) == IF n < 10 THEN <<n>> ELSE Append(Digits(n \div 10), n % 10)

\* f"{n:0{width}d}": zero-padded on the left to at least width digits
FormatZeroPadded(n, width) ==
    [i \in 1..(Max(width, Len(Digits(n))) - Len(Digits(n))) |-> 0] \o Digits(n)

\* variant: only full steps are counted, a trailing partial step is lost
Range_FullStepsOnly(stop, step) == [k \in 1..(stop \div step) |-> (k - 1) * step]

\* range(0, stop, step) as the sequence of its elements
Range(stop, step) == [k \in 1..((stop + step - 1) \div step) |-> (k - 1) * step]

\* one row: f"{index:0{index_offset}d} | " + " ".join(f"{val:0{number_offset}d}" ...)
\* over memory[index:index + offset]
DumpRow(memory, index) ==
    [ index |-> FormatZeroPadded(index, index_offset),
      cells |-> [j \in 1..Len(Slice(memory, index, index + offset)) |->
                    FormatZeroPadded(Slice(memory, index, index + offset)[j],
                                     number_offset)] ]

\* the text written for one memory section
_create_memory_dump(memory, section_name) ==
    [ start   |-> <<section_name, "SECTION START", section_size>>,
      columns |-> [i \in 1..offset |-> i - 1],
      rows    |-> [k \in 1..Len(Range(Len(memory), offset)) |->
                      DumpRow(memory, Range(Len(memory), offset)[k])],
      end     |-> <<section_name, "SECTION END", section_size>> ]

\* the text written for the registers
RegisterDump(emu) ==
    [ start |-> <<"REGISTER", "SECTION START", section_size>>,
      lines |-> << <<"ACC ", Digits(emu.accumulator)>>,
                   <<"PR  ", Digits(emu.pointer_register)>>,
                   <<"PC  ", Digits(emu.program_counter)>>,
                   <<"FR  ", Digits(emu.flag_register)>>,
                   <<"SP  ", Digits(emu.stack_pointer)>>,
                   <<"ASP ", Digits(emu.address_stack_pointer)>> >>,
      end   |-> <<"REGISTER", "SECTION END", section_size>> ]

\* variant: the address stack file is written from the data stack
DumpFiles_StackTwice(emu) ==
    [ CACHE      |-> _create_memory_dump(emu.cache, "CACHE"),
      STACK      |-> _create_memory_dump(emu.stack, "STACK"),
      ADDR_STACK |-> _create_memory_dump(emu.stack, "ADDR_STACK"),
      PORTS      |-> _create_memory_dump(emu.ports, "PORTS"),
      REGISTERS  |-> RegisterDump(emu) ]

\* the five files written, by extension
DumpFiles(emu) ==
    [ CACHE      |-> _create_memory_dump(emu.cache, "CACHE"),
      STACK      |-> _create_memory_dump(emu.stack, "STACK"),
      ADDR_STACK |-> _create_memory_dump(emu.address_stack, "ADDR_STACK"),
      PORTS      |-> _create_memory_dump(emu.ports, "PORTS"),
      REGISTERS  |-> RegisterDump(emu) ]

----------------------------------------------------------------------------
(* QTEmulatorIO: inputs and steps *)

\* a segment of n cells a, a+b, a+2b, ... (16-bit cells)
Cells(n, a, b) == [i \in 1..n |-> (a + b * (i - 1)) % 65536]

Emulators ==
    [ cache                 : {Cells(n, a, 1) : n \in 0..MaxSegLen, a \in {0, 65520}},
      stack                 : {<<>>, Cells(17, 100, 3)},
      address_stack         : {Cells(1, 5, 0), Cells(16, 9, 1000)},
      ports                 : {Cells(3, 65535, 0), Cells(32, 1, 2)},
      accumulator           : {0, 65535},
      pointer_register      : {12},
      program_counter       : {3, 100},
      flag_register         : {1},
      stack_pointer         : {17},
      address_stack_pointer : {16} ]

LoadIdle ==
    /\ file = <<>>
    /\ pos = 0
    /\ namespace = <<>>
    /\ raw_instruction = <<>>
    /\ instructions = <<>>
    /\ pc = "idle"
    /\ error = "none"
    /\ eof_reads = 0

DumpInit ==
    /\ emulator \in Emulators
    /\ dumps = <<>>
    /\ dumped = FALSE
    /\ LoadIdle

create_memory_dump ==
    /\ ~dumped
    /\ emulator # <<>>
    /\ dumps' = DumpFiles(emulator)
    /\ dumped' = TRUE
    /\ UNCHANGED <<emulator, loadvars>>

DumpNext == create_memory_dump

DumpSpec == DumpInit /\ [][DumpNext]_vars

----------------------------------------------------------------------------
(* QTEmulatorIO: properties *)

\* the number a sequence of decimal digits denotes
RECURSIVE DigitsValue(_)
DigitsValue(d) ==
    IF d = <<>> THEN 0
    ELSE 10 * DigitsValue(SubSeq(d, 1, Len(d) - 1)) + d[Len(d)]

\* the cells of a section dump, row after row
RECURSIVE RowsCells(_)
RowsCells(rows) ==
    IF rows = <<>> THEN <<>>
    ELSE RowsCells(SubSeq(rows, 1, Len(rows) - 1)) \o
         [j \in 1..Len(rows[Len(rows)].cells) |-> DigitsValue(rows[Len(rows)].cells[j])]

SegmentOf(emu, ext) ==
    CASE ext = "CACHE" -> emu.cache
      [] ext = "STACK" -> emu.stack
      [] ext = "ADDR_STACK" -> emu.address_stack
      [] ext = "PORTS" -> emu.ports

SegmentNames == {"CACHE", "STACK", "ADDR_STACK", "PORTS"}

\* C7: create_memory_dump leaves the emulator's segments and registers as
\* they were, and the files hold all four segments and all six registers.
C7_DumpReadsOnly ==
    /\ [][emulator' = emulator]_vars
    /\ [](dumped =>
            /\ \A ext \in SegmentNames :
                   RowsCells(dumps[ext].rows) = SegmentOf(emulator, ext)
            /\ [i \in 1..6 |-> DigitsValue(dumps["REGISTERS"].lines[i][2])] =
                   << emulator.accumulator, emulator.pointer_register,
                      emulator.program_counter, emulator.flag_register,
                      emulator.stack_pointer, emulator.address_stack_pointer >>
            /\ [i \in 1..6 |-> dumps["REGISTERS"].lines[i][1]] =
                   <<"ACC ", "PR  ", "PC  ", "FR  ", "SP  ", "ASP ">>)

C7_Witness ==
    /\ dumped
    /\ Len(emulator.cache) = 20
    /\ Len(emulator.stack) = 17
    /\ Len(emulator.address_stack) = 16
    /\ Len(emulator.ports) = 32
    /\ emulator.accumulator = 65535
    /\ dumps["REGISTERS"].lines[1] = <<"ACC ", <<6, 5, 5, 3, 5>>>>

\* C10: a section dump holds every cell once, in index order, in rows of 16
\* labelled with the index of their first cell; the last row holds the
\* remaining cells, and an empty segment gives no row.
C10_RowsOfSixteen ==
    dumped =>
        \A ext \in SegmentNames :
            LET memory == SegmentOf(emulator, ext)
                rows == dumps[ext].rows
            IN  /\ Len(rows) = (Len(memory) + 15) \div 16
                /\ \A k \in 1..Len(rows) :
                       /\ DigitsValue(rows[k].index) = 16 * (k - 1)
                       /\ Len(rows[k].cells) =
                              IF k < Len(rows) THEN 16 ELSE Len(memory) - 16 * (k - 1)
                       /\ \A j \in 1..Len(rows[k].cells) :
                              DigitsValue(rows[k].cells[j]) = memory[16 * (k - 1) + j]

C10_Witness ==
    /\ dumped
    /\ Len(emulator.cache) = 33
    /\ Len(dumps["CACHE"].rows) = 3
    /\ Len(dumps["CACHE"].rows[3].cells) = 1
    /\ dumps["CACHE"].rows[3].index = <<0, 0, 3, 2>>
    /\ emulator.stack = <<>>
    /\ dumps["STACK"].rows = <<>>

====
